---- MODULE Spec2Model ----
(***************************************************************************)
(* SurfaceMeshPicker (easy3d/gui/picker_surface_mesh.cpp): the dispatcher  *)
(* pick_face, its GPU and CPU strategies, the vertex / edge refiners and   *)
(* the accessors, together with the pieces of the environment they touch   *)
(* (shader manager, GL clear colour and framebuffer binding, the mesh's    *)
(* drawable and 'f:triangle_range' property).                              *)
(*                                                                         *)
(* A call of pick_face is a sequence of steps; pc is its position.  The    *)
(* locals of pick_face_gpu / pick_face_cpu live until the call returns.    *)
(* Geometry is abstract: what the camera, the mesh and the intersection    *)
(* predicates answer is drawn from small sets where the code asks.         *)
(***************************************************************************)
EXTENDS Integers, Sequences, FiniteSets, TLC

\* ---------------------------------------------------------------- bounds
NumFaces == 2       \* model->faces_size()
MaxTri == 2         \* largest triangle index a range may mention
MaxDist == 1        \* squared distances are drawn from 0..MaxDist
MaxWorkers == 2     \* largest OpenMP team
FaceValence == 3    \* halfedges around a face

\* ------------------------------------------------------------- constants
Invalid == -1                 \* index of a default-constructed handle
NoIntersection == -1          \* no distance: plane.intersect(line, p) is false
Degenerate == -1              \* no distance: the edge's end points coincide
hit_resolution_ == 15         \* constructor, hit_resolution_(15)
White == 255                  \* channel value of glClearColor(1,1,1,1)
DefaultPoint == 0             \* picked_point_ before any CPU hit
PickerFbo == 2                \* framebuffer name of the picker's fbo_

Faces == 0 .. (NumFaces - 1)
Handles == 0 .. (FaceValence - 1)      \* k-th halfedge / vertex of a face
Dists == 0 .. MaxDist
FLT_MAX == MaxDist + 1                 \* above every finite distance drawn
ScreenDists == {hit_resolution_ - 1, hit_resolution_, hit_resolution_ + 1}
Models == {"null", "mesh"}
PickOps == {"pick_face", "pick_vertex", "pick_edge"}

\* GL contexts the application may call the picker in: clear colour and
\* framebuffer binding.
Contexts == {[color |-> <<0, 0, 0, 0>>, fbo |-> 0],
             [color |-> <<0, White, 0, White>>, fbo |-> 1]}

\* Pixels the readback can deliver: the cleared background, or a colour
\* written by the selection shader.
Pixels == {<<White, White, White, White>>}
            \cup {<<0, g, b, a>> : g \in {0, 1}, b \in 0 .. (MaxTri + 1), a \in {0, White}}

Min(S) == CHOOSE m \in S : \A n \in S : m <= n

\* A triangle range is an inclusive pair <<first, last>>; the renderer
\* gives the faces non-empty, pairwise disjoint ranges.
Ranges == {<<a, b>> : a \in 0 .. MaxTri, b \in 0 .. MaxTri}
InRange(id, r) == id >= r[1] /\ id <= r[2]
Disjoint(tr) == /\ \A f \in Faces : tr[f][1] <= tr[f][2]
                /\ \A f, g \in Faces : f # g =>
                      (tr[f][2] < tr[g][1] \/ tr[g][2] < tr[f][1])
NoRanges == [f \in Faces |-> <<0, 0>>]
NoProperty == [defined |-> FALSE, range |-> NoRanges]
\* What model->get_face_property("f:triangle_range") can hand back.
Properties == {NoProperty}
                \cup {[defined |-> TRUE, range |-> tr] :
                         tr \in {t \in [Faces -> Ranges] : Disjoint(t)}}

VARIABLES
    use_gpu_, program_, picked_face_, picked_point_, fbo_,
    shader_cache, clear_color, bound_fbo, drawable,
    pc, op, model, c, color, prev_fbo, triangle_range,
    hit, plane, num_threads, todo, status,
    ret, logged, path, attempted, downgrade, entry, face_arg, ref_point, aborted

pickerVars == <<use_gpu_, program_, picked_face_, picked_point_, fbo_>>
glVars == <<clear_color, bound_fbo, prev_fbo, color>>
gpuLocals == <<c, triangle_range>>
cpuLocals == <<hit, plane, num_threads, todo, status>>
vars == <<use_gpu_, program_, picked_face_, picked_point_, fbo_,
          shader_cache, clear_color, bound_fbo, drawable,
          pc, op, model, c, color, prev_fbo, triangle_range,
          hit, plane, num_threads, todo, status,
          ret, logged, path, attempted, downgrade, entry, face_arg, ref_point, aborted>>

NoHit == [f \in Faces |-> FALSE]
NoPlane == [f \in Faces |-> NoIntersection]
NoStatus == [f \in Faces |-> 0]
NoPixel == <<0, 0, 0, 0>>

\* State after SurfaceMeshPicker(cam); the shader manager, the GL context
\* and the mesh's drawable are the application's and may be in any of
\* their states.
Init ==
    /\ use_gpu_ = TRUE
    /\ program_ = FALSE
    /\ picked_face_ = Invalid
    /\ picked_point_ = DefaultPoint
    /\ fbo_ = FALSE
    /\ shader_cache \in BOOLEAN
    /\ \E ctx \in Contexts : clear_color = ctx.color /\ bound_fbo = ctx.fbo
    /\ drawable \in BOOLEAN
    /\ pc = "idle"
    /\ op = "none"
    /\ model = "mesh"
    /\ c = NoPixel
    /\ color = <<0, 0, 0, 0>>
    /\ prev_fbo = 0
    /\ triangle_range = NoProperty
    /\ hit = NoHit
    /\ plane = NoPlane
    /\ num_threads = 0
    /\ todo = {}
    /\ status = NoStatus
    /\ ret = Invalid
    /\ logged = FALSE
    /\ path = "none"
    /\ attempted = FALSE
    /\ downgrade = "never"
    /\ entry = [color |-> clear_color, fbo |-> bound_fbo,
                face |-> Invalid, point |-> DefaultPoint]
    /\ face_arg = Invalid
    /\ ref_point = Invalid
    /\ aborted = FALSE

\* ------------------------------------------------------------ dispatcher

\* Where control goes when pick_face returns: back to the caller of
\* pick_face, or into the refiner of the composing overload.
AfterPickFace(o) == IF o = "pick_face" THEN "idle" ELSE "refine"

\* ShaderManager::get_program: the program if the manager holds it.
GetProgram(cache) == cache

\* if (!program_) use_gpu_ = false;
GpuAfterSetup(gpu, prog) == gpu /\ prog

\* Variant: the shader manager is asked on every call.
AlwaysAttemptsShader(gpu) == TRUE

\* if (use_gpu_) { program_ = get_program(...); ... }: whether this call
\* goes to the shader manager.
AttemptsShader(gpu) == gpu

\* What a null model does to the cached face: return SurfaceMesh::Face()
\* leaves picked_face_ alone.
NullModelFace(cached) == cached

\* pick_face(model, x, y), and the pick_face call that opens
\* pick_vertex(model, x, y) and pick_edge(model, x, y): lines 48-67 up to
\* the choice of the strategy.
PickFaceCall(o, m) ==
    /\ pc = "idle" /\ ~aborted
    /\ op' = o /\ model' = m
    /\ logged' = FALSE
    /\ entry' = [color |-> clear_color, fbo |-> bound_fbo,
                 face |-> picked_face_, point |-> picked_point_]
    /\ face_arg' = Invalid
    /\ ref_point' = Invalid
    /\ UNCHANGED <<picked_point_, fbo_, drawable, glVars, gpuLocals, cpuLocals, aborted>>
    /\ IF m = "null"
       THEN /\ ret' = Invalid
            /\ picked_face_' = NullModelFace(picked_face_)
            /\ pc' = AfterPickFace(o)
            /\ path' = "none"
            /\ attempted' = FALSE
            /\ downgrade' = IF downgrade = "this" THEN "earlier" ELSE downgrade
            /\ UNCHANGED <<use_gpu_, program_, shader_cache>>
       ELSE IF AttemptsShader(use_gpu_)
       THEN \E compiled \in BOOLEAN :
              LET found == GetProgram(shader_cache)
                  prog == found \/ compiled
              IN /\ attempted' = TRUE
                 /\ shader_cache' = prog
                 /\ program_' = prog
                 /\ use_gpu_' = GpuAfterSetup(use_gpu_, prog)
                 /\ downgrade' = IF use_gpu_ /\ ~prog THEN "this"
                                 ELSE IF downgrade = "this" THEN "earlier"
                                 ELSE downgrade
                 /\ path' = IF use_gpu_' THEN "gpu" ELSE "cpu"
                 /\ pc' = path'
                 /\ UNCHANGED <<ret, picked_face_>>
       ELSE /\ attempted' = FALSE
            /\ downgrade' = IF downgrade = "this" THEN "earlier" ELSE downgrade
            /\ path' = IF use_gpu_ THEN "gpu" ELSE "cpu"
            /\ pc' = path'
            /\ UNCHANGED <<ret, picked_face_, use_gpu_, program_, shader_cache>>

\* pick_face returns: its frame, with the locals of the strategy, is gone.
PickFaceReturn ==
    /\ pc \in {"gpu_done", "cpu_done"} /\ ~aborted
    /\ pc' = AfterPickFace(op)
    /\ c' = NoPixel
    /\ triangle_range' = NoProperty
    /\ hit' = NoHit
    /\ plane' = NoPlane
    /\ UNCHANGED <<pickerVars, shader_cache, drawable, glVars, op, model,
                   num_threads, todo, status,
                   ret, logged, path, attempted, downgrade, entry, face_arg, ref_point, aborted>>

\* -------------------------------------------------------------- GPU path

\* FramebufferObject::bind / release: bind remembers the binding it
\* replaces, release switches back to it.
FboBind(bound) == [bound |-> PickerFbo, prev |-> bound]
FboRelease(prev) == prev

\* Variant: the clear colour is left as the pick set it.
KeepClearColor(saved, current) == current

\* glClearColor(color[0], color[1], color[2], color[3]) with the colour
\* saved by glGetFloatv(GL_COLOR_CLEAR_VALUE, color).
RestoreClearColor(saved, current) == saved

\* pick_face_gpu, lines 225-275: drawable, offscreen target, bind, save
\* and override the clear colour, draw, read the pixel under the cursor.
GpuRender ==
    /\ pc = "gpu" /\ ~aborted
    /\ drawable' = TRUE
    /\ fbo_' = TRUE
    /\ bound_fbo' = FboBind(bound_fbo).bound
    /\ prev_fbo' = FboBind(bound_fbo).prev
    /\ color' = clear_color
    /\ clear_color' = <<White, White, White, White>>
    /\ \E px \in Pixels : c' = px
    /\ pc' = "gpu_read"
    /\ UNCHANGED <<use_gpu_, program_, picked_face_, picked_point_, shader_cache,
                   triangle_range, op, model, cpuLocals,
                   ret, logged, path, attempted, downgrade, entry, face_arg, ref_point, aborted>>

\* rgb::rgba(r, g, b, a): the four channels packed into a 32-bit int,
\* alpha in the top byte, so that an alpha of 128 or more gives a negative
\* int (two's complement).
SignedByte(b) == IF b >= 128 THEN b - 256 ELSE b
Rgba(px) == SignedByte(px[4]) * 16777216 + px[1] * 65536 + px[2] * 256 + px[3]

\* static_cast<unsigned int>(id) < model->faces_size(): a negative id
\* converts to a value of 2^31 or more, above any face count.
IsFaceIndex(id) == id >= 0 /\ id < NumFaces

\* Variant: the id is taken for the face index without looking at the range.
FastPathUnchecked(id, tr) == IF IsFaceIndex(id) THEN id ELSE Invalid

\* Lines 305-312: treat the mesh as a triangle mesh, face number id.
FastPath(id, tr) == IF IsFaceIndex(id) /\ InRange(id, tr[id]) THEN id ELSE Invalid

\* Lines 315-321: the first face, in index order, whose range holds id.
RECURSIVE LinearScan(_, _, _)
LinearScan(face_id, id, tr) ==
    IF face_id >= NumFaces THEN Invalid
    ELSE IF InRange(id, tr[face_id]) THEN face_id
    ELSE LinearScan(face_id + 1, id, tr)

\* Lines 295-325 with the property present.
ResolveFace(id, tr) ==
    IF id >= 0
    THEN IF FastPath(id, tr) # Invalid THEN FastPath(id, tr) ELSE LinearScan(0, id, tr)
    ELSE Invalid

\* Lines 295-302: the property is looked up only for a non-negative id.
MissingProperty(id, prop) == id >= 0 /\ ~prop.defined

\* Line 289 and the return at line 301: the cached face when the property
\* is missing.
MissingPropertyFace(cached) == Invalid

\* Variant: the GPU path stores a point of the face it picked.
GpuSetsPoint(old, face) == IF face # Invalid THEN face + 1 ELSE old

\* The picked point the GPU path leaves behind (it assigns none).
GpuPickedPoint(old, face) == old

\* Variant: a missing property switches GPU mode off.
GpuOffWhenMissing(gpu, missing) == gpu /\ ~missing

\* use_gpu_ after the GPU strategy has run (it does not touch it).
GpuModeAfterPick(gpu, missing) == gpu

\* pick_face_gpu, lines 277-325: release the target, restore the clear
\* colour, decode the id, reset and resolve the picked face.
GpuFinish ==
    /\ pc = "gpu_read" /\ ~aborted
    /\ bound_fbo' = FboRelease(prev_fbo)
    /\ clear_color' = RestoreClearColor(color, clear_color)
    /\ \E prop \in Properties :
        LET id == Rgba(c)
            missing == MissingProperty(id, prop)
            face == IF id < 0 THEN Invalid ELSE
                    IF missing THEN Invalid ELSE ResolveFace(id, prop.range)
        IN /\ triangle_range' = IF id >= 0 THEN prop ELSE NoProperty
           /\ picked_face_' = IF missing THEN MissingPropertyFace(picked_face_) ELSE face
           /\ picked_point_' = GpuPickedPoint(picked_point_, face)
           /\ ret' = face
           /\ logged' = missing
           /\ use_gpu_' = GpuModeAfterPick(use_gpu_, missing)
    /\ pc' = "gpu_done"
    /\ UNCHANGED <<program_, fbo_, shader_cache, drawable, prev_fbo, color,
                   op, model, c, cpuLocals, path, attempted, downgrade, entry,
                   face_arg, ref_point, aborted>>

\* -------------------------------------------------------------- CPU path

\* The thread the static schedule gives iteration i to, in a team of n.
Owner(i, n) == (i \div ((NumFaces + n - 1) \div n)) + 1

\* Lines 184-190: the status buffer and the fork of the parallel loop.
\* hit[i] is do_intersect(model, Face(i), oline).
CpuFork ==
    /\ pc = "cpu" /\ ~aborted
    /\ \E h \in [Faces -> BOOLEAN] : hit' = h
    /\ \E n \in 1 .. MaxWorkers : num_threads' = n
    /\ status' = [f \in Faces |-> 0]
    /\ todo' = Faces
    /\ plane' = NoPlane
    /\ pc' = "cpu_scan"
    /\ UNCHANGED <<pickerVars, shader_cache, drawable, glVars, op, model, gpuLocals,
                   ret, logged, path, attempted, downgrade, entry, face_arg, ref_point, aborted>>

\* The element of status iteration i writes.
WriteIndex(i) == i

\* Lines 191-194: one iteration of the loop body, run by thread w; each
\* thread takes its own iterations in increasing order.
WorkerStep(w) ==
    /\ pc = "cpu_scan" /\ ~aborted
    /\ w <= num_threads
    /\ {j \in todo : Owner(j, num_threads) = w} # {}
    /\ LET i == Min({j \in todo : Owner(j, num_threads) = w})
       IN /\ status' = IF hit[i] /\ WriteIndex(i) \in Faces
                       THEN [status EXCEPT ![WriteIndex(i)] = 1] ELSE status
          /\ todo' = todo \ {i}
    /\ UNCHANGED <<pickerVars, shader_cache, drawable, glVars, pc, op, model, gpuLocals,
                   hit, plane, num_threads,
                   ret, logged, path, attempted, downgrade, entry, face_arg, ref_point, aborted>>

\* Variant: the reduction does not wait for the team (nowait).
NoBarrier(left) == TRUE

\* The implicit barrier that ends the parallel region.
Barrier(left) == left = {}

\* End of the parallel region. plane[i] is distance2(p, p_near) for the
\* point p of face i's plane on the picking line, or NoIntersection when
\* plane.intersect(line, p) fails.
CpuJoin ==
    /\ pc = "cpu_scan" /\ ~aborted
    /\ Barrier(todo)
    /\ \E pl \in [Faces -> Dists \cup {NoIntersection}] : plane' = pl
    /\ num_threads' = 0
    /\ pc' = "cpu_reduce"
    /\ UNCHANGED <<pickerVars, shader_cache, drawable, glVars, op, model, gpuLocals,
                   hit, todo, status,
                   ret, logged, path, attempted, downgrade, entry, face_arg, ref_point, aborted>>

\* The point p that plane.intersect(line, p) yields for face i.
IntersectionPoint(i) == i + 1

\* Variant: s <= squared_distance, the last of equals wins.
CloserOrEqual(s, best) == s <= best

\* s < squared_distance
Closer(s, best) == s < best

\* if (plane.intersect(line, p))
Intersects(d) == d # NoIntersection

\* Lines 199-218: the sequential reduction over the status array.
RECURSIVE Reduce(_, _, _, _)
Reduce(i, best, st, pl) ==
    IF i >= NumFaces THEN best
    ELSE IF st[i] # 0 /\ Intersects(pl[i]) /\ Closer(pl[i], best.dist)
    THEN Reduce(i + 1, [face |-> i, point |-> IntersectionPoint(i), dist |-> pl[i]], st, pl)
    ELSE Reduce(i + 1, best, st, pl)

\* pick_face_cpu, lines 196-220.
CpuReduce ==
    /\ pc = "cpu_reduce" /\ ~aborted
    /\ LET r == Reduce(0, [face |-> Invalid, point |-> picked_point_, dist |-> FLT_MAX],
                       status, plane)
       IN /\ picked_face_' = r.face
          /\ picked_point_' = r.point
          /\ ret' = r.face
    /\ status' = NoStatus
    /\ todo' = {}
    /\ pc' = "cpu_done"
    /\ UNCHANGED <<use_gpu_, program_, fbo_, shader_cache, drawable, glVars, op, model,
                   gpuLocals, hit, plane, num_threads,
                   logged, path, attempted, downgrade, entry, face_arg, ref_point, aborted>>

\* -------------------------------------------------------------- refiners

\* Variant: any valid face passes, cached or not.
AnyValidFaceAccepted(f, cached) == f # Invalid

\* if (!picked_face.is_valid() || picked_face != picked_face_) is false.
FaceAccepted(f, cached) == f # Invalid /\ f = cached

\* Lines 77-86: the boundary vertex nearest to picked_point_; d3[k] is
\* distance2(position(k-th vertex), picked_point_).
RECURSIVE ClosestVertex(_, _, _)
ClosestVertex(k, best, d3) ==
    IF k >= FaceValence THEN best.v
    ELSE IF d3[k] < best.dist
    THEN ClosestVertex(k + 1, [v |-> k, dist |-> d3[k]], d3)
    ELSE ClosestVertex(k + 1, best, d3)

\* distance2(s, t) > threshold: the edge has two distinct end points.
ProperEdge(d) == d # Degenerate

\* Lines 117-133: the nearest boundary edge, edges with coincident end
\* points left out; d3[k] is seg.squared_ditance(picked_point_) of the k-th
\* edge, or Degenerate.
RECURSIVE ClosestEdge(_, _, _)
ClosestEdge(k, best, d3) ==
    IF k >= FaceValence THEN best.v
    ELSE IF ProperEdge(d3[k]) /\ d3[k] < best.dist
    THEN ClosestEdge(k + 1, [v |-> k, dist |-> d3[k]], d3)
    ELSE ClosestEdge(k + 1, best, d3)

\* if (dist < hit_resolution_) return closest; else return invalid.
Accept(closest, dist) ==
    IF closest = Invalid THEN Invalid
    ELSE IF dist < hit_resolution_ THEN closest ELSE Invalid

\* The point the refiners measure 3D distances against.
MeasuredPoint(point) == point

\* The body of pick_vertex(model, face, x, y) (lines 70-101) and of
\* pick_edge(model, face, x, y) (lines 110-151). lg says whether the call
\* has logged an error already. With a null model the loop dereferences
\* it: the call may crash or return anything.
Refine(kind, m, f, lg) ==
    /\ face_arg' = f
    /\ IF ~FaceAccepted(f, picked_face_)
       THEN /\ ret' = Invalid
            /\ logged' = TRUE
            /\ ref_point' = Invalid
            /\ UNCHANGED aborted
       ELSE IF m = "null"
       THEN /\ \E crash \in BOOLEAN, r \in Handles \cup {Invalid} :
                  /\ aborted' = crash
                  /\ ret' = IF crash THEN ret ELSE r
            /\ logged' = lg
            /\ ref_point' = Invalid
       ELSE /\ \E sd \in ScreenDists :
                  IF kind = "vertex"
                  THEN \E d3 \in [Handles -> Dists] :
                         ret' = Accept(ClosestVertex(0, [v |-> Invalid, dist |-> FLT_MAX],
                                                     d3), sd)
                  ELSE \E d3 \in [Handles -> Dists \cup {Degenerate}] :
                         ret' = Accept(ClosestEdge(0, [v |-> Invalid, dist |-> FLT_MAX],
                                                   d3), sd)
            /\ logged' = lg
            /\ ref_point' = MeasuredPoint(picked_point_)
            /\ UNCHANGED aborted

\* pick_vertex(model, face, x, y) called by the application.
PickVertexOfFace(m, f) ==
    /\ pc = "idle" /\ ~aborted
    /\ op' = "pick_vertex_f" /\ model' = m
    /\ Refine("vertex", m, f, FALSE)
    /\ UNCHANGED <<pickerVars, shader_cache, drawable, glVars, gpuLocals, cpuLocals, pc,
                   path, attempted, downgrade, entry>>

\* pick_edge(model, face, x, y) called by the application.
PickEdgeOfFace(m, f) ==
    /\ pc = "idle" /\ ~aborted
    /\ op' = "pick_edge_f" /\ model' = m
    /\ Refine("edge", m, f, FALSE)
    /\ UNCHANGED <<pickerVars, shader_cache, drawable, glVars, gpuLocals, cpuLocals, pc,
                   path, attempted, downgrade, entry>>

\* Lines 104-107 and 154-157 after pick_face has returned: the refiner is
\* run on the face pick_face returned.
RefineStep ==
    /\ pc = "refine" /\ ~aborted
    /\ Refine(IF op = "pick_vertex" THEN "vertex" ELSE "edge", model, ret, logged)
    /\ pc' = "idle"
    /\ UNCHANGED <<pickerVars, shader_cache, drawable, glVars, gpuLocals, cpuLocals, op, model,
                   path, attempted, downgrade, entry>>

\* ------------------------------------------------------------- accessors

\* if (!picked_face_.is_valid()) LOG(ERROR)
NothingPicked(face) == face = Invalid

\* picked_face(), lines 167-172.
PickedFace ==
    /\ pc = "idle" /\ ~aborted
    /\ op' = "picked_face"
    /\ ret' = picked_face_
    /\ logged' = NothingPicked(picked_face_)
    /\ face_arg' = Invalid
    /\ ref_point' = Invalid
    /\ UNCHANGED <<pickerVars, shader_cache, drawable, glVars, gpuLocals, cpuLocals, pc, model,
                   path, attempted, downgrade, entry, aborted>>

\* picked_point(), lines 175-180.
PickedPoint ==
    /\ pc = "idle" /\ ~aborted
    /\ op' = "picked_point"
    /\ ret' = picked_point_
    /\ logged' = NothingPicked(picked_face_)
    /\ face_arg' = Invalid
    /\ ref_point' = Invalid
    /\ UNCHANGED <<pickerVars, shader_cache, drawable, glVars, gpuLocals, cpuLocals, pc, model,
                   path, attempted, downgrade, entry, aborted>>

\* ---------------------------------------------------------- specification
PickFace == \E m \in Models : PickFaceCall("pick_face", m)
PickVertex == \E m \in Models : PickFaceCall("pick_vertex", m)
PickEdge == \E m \in Models : PickFaceCall("pick_edge", m)
PickVertexFace == \E m \in Models, f \in Faces \cup {Invalid} : PickVertexOfFace(m, f)
PickEdgeFace == \E m \in Models, f \in Faces \cup {Invalid} : PickEdgeOfFace(m, f)
Worker == \E w \in 1 .. MaxWorkers : WorkerStep(w)

Next ==
    \/ PickFace
    \/ PickVertex
    \/ PickEdge
    \/ GpuRender
    \/ GpuFinish
    \/ CpuFork
    \/ Worker
    \/ CpuJoin
    \/ CpuReduce
    \/ PickFaceReturn
    \/ RefineStep
    \/ PickVertexFace
    \/ PickEdgeFace
    \/ PickedFace
    \/ PickedPoint

Spec == Init /\ [][Next]_vars

\* ================================================================ claims

\* pick_face has returned and ret is the handle it returned.
PickFaceReturned ==
    \/ pc \in {"gpu_done", "cpu_done", "refine"}
    \/ (op = "pick_face" /\ pc = "idle")

\* A refiner (either overload) has returned and ret is its result.
RefinerReturned ==
    /\ op \in {"pick_vertex", "pick_edge", "pick_vertex_f", "pick_edge_f"}
    /\ pc = "idle"

\* C1: once a pick_face call finds GPU mode on and both the lookup and the
\* compilation of the shader fail, that call is served by the CPU path,
\* GPU mode is off from then on, and every later pick_face call on a mesh
\* is served by the CPU path without going to the shader manager again.
C1_DowngradePermanent ==
    /\ downgrade # "never" =>
          (~use_gpu_ /\ pc \notin {"gpu", "gpu_read", "gpu_done"})
    /\ downgrade = "this" => (path = "cpu" /\ attempted)
    /\ (downgrade = "earlier" /\ op \in PickOps /\ model = "mesh") =>
          (path = "cpu" /\ ~attempted)

\* A call after the downgrade has been served by the CPU path and found a face.
C1_Witness ==
    /\ downgrade = "earlier" /\ pc = "cpu_done" /\ ret # Invalid /\ ~attempted

\* C2 as stated: after any pick_face call returns, early returns included,
\* the cached face equals the handle the call returned.
C2_CacheEqualsReturn == PickFaceReturned => picked_face_ = ret

\* Lemma: after a pick_face call with a non-null mesh returns, the cached
\* face equals the handle the call returned, and picked_face() reports the
\* cached face.
CacheEqualsReturnOnMesh ==
    /\ (PickFaceReturned /\ model = "mesh") => picked_face_ = ret
    /\ (op = "picked_face" /\ pc = "idle") => ret = picked_face_

\* A call on a mesh found nothing and replaced a valid cached face.
CacheReplacedByInvalid ==
    /\ PickFaceReturned /\ model = "mesh" /\ pc \in {"gpu_done", "cpu_done"}
    /\ entry.face # Invalid /\ ret = Invalid /\ picked_face_ = Invalid

\* A refiner step: the call of pick_vertex / pick_edge with a face, or the
\* refiner run by the composing overload.
RefinerStep ==
    \/ (pc = "idle" /\ op' \in {"pick_vertex_f", "pick_edge_f"})
    \/ (pc = "refine" /\ pc' = "idle")

\* C3: pick_vertex / pick_edge given a face that is invalid or is not the
\* cached picked face return an invalid handle and log an error, and leave
\* the cached face and point as they were.
C3_MismatchRejected ==
    /\ [](RefinerReturned /\ op \in {"pick_vertex_f", "pick_edge_f"}
            /\ (face_arg = Invalid \/ face_arg # picked_face_)
          => (ret = Invalid /\ logged))
    /\ [][(RefinerStep /\ (face_arg' = Invalid \/ face_arg' # picked_face_))
            => (picked_face_' = picked_face_ /\ picked_point_' = picked_point_
                /\ ret' = Invalid /\ logged')]_vars

\* A valid face other than the cached valid face was passed, on a mesh.
C3_Witness ==
    /\ op \in {"pick_vertex_f", "pick_edge_f"} /\ pc = "idle" /\ model = "mesh"
    /\ face_arg # Invalid /\ picked_face_ # Invalid /\ face_arg # picked_face_
    /\ ret = Invalid /\ logged

\* C4: a pick operation given a null mesh returns an invalid handle and
\* never aborts (the claim adds that an error is logged, which
\* pick_face(null) does not do either).
C4_NullMeshNeverAborts ==
    (model = "null" /\ (pc = "idle" \/ aborted)
       /\ op \in PickOps \cup {"pick_vertex_f", "pick_edge_f"})
        => (~aborted /\ ret = Invalid)

\* The GPU strategy has found the triangle-range property missing.
GpuMissingProperty == pc = "gpu_done" /\ MissingProperty(Rgba(c), triangle_range)

\* C5: when the GPU path needs 'f:triangle_range' and the mesh has none,
\* the call logs an error, returns an invalid face and leaves the cached
\* face invalid, GPU mode stays on, and the next pick_face call on a mesh
\* takes the GPU path again.
C5_MissingPropertyKeepsGpu ==
    /\ [](GpuMissingProperty =>
            (logged /\ ret = Invalid /\ picked_face_ = Invalid /\ use_gpu_))
    /\ [][(pc = "idle" /\ op = "pick_face" /\ path = "gpu" /\ logged
            /\ pc' # "idle" /\ model' = "mesh")
          => (pc' = "gpu" /\ path' = "gpu" /\ use_gpu_')]_vars

\* The property was found missing by a call that had a valid face cached.
C5_Witness == GpuMissingProperty /\ entry.face # Invalid /\ logged

\* C6: on every exit of the GPU pick the clear colour is the one the call
\* found and the framebuffer binding is the one the call found, the
\* picker's offscreen target being released.
C6_GlStateRestored ==
    (path = "gpu" /\ pc \in {"gpu_done", "idle", "refine"}) =>
        /\ clear_color = entry.color
        /\ bound_fbo = entry.fbo
        /\ bound_fbo # PickerFbo

\* The missing-property exit, entered with a clear colour other than white
\* and a framebuffer other than the default bound.
C6_Witness ==
    /\ GpuMissingProperty /\ entry.color # <<White, White, White, White>>
    /\ entry.fbo # 0 /\ clear_color = entry.color

\* The faces whose inclusive range holds id.
Holders(id, tr) == {f \in Faces : tr[f][1] <= id /\ id <= tr[f][2]}

\* C7: with disjoint ranges the GPU path returns exactly the one face whose
\* range holds the decoded id, an invalid face when the id is negative or
\* no range holds it, and the fast path never answers differently from the
\* linear scan.
C7_ResolvesContainingFace ==
    (pc = "gpu_done" /\ ~MissingProperty(Rgba(c), triangle_range)) =>
        LET id == Rgba(c)
            tr == triangle_range.range
        IN /\ id < 0 => ret = Invalid
           /\ (id >= 0 /\ Holders(id, tr) = {}) => ret = Invalid
           /\ (id >= 0 /\ Holders(id, tr) # {}) => Holders(id, tr) = {ret}
           /\ (id >= 0 /\ FastPath(id, tr) # Invalid) =>
                 FastPath(id, tr) = LinearScan(0, id, tr)

\* The id is a face index, but the face holding it, found by the linear
\* scan, is another one.
C7_Witness ==
    /\ pc = "gpu_done" /\ triangle_range.defined /\ Rgba(c) \in Faces
    /\ ret # Invalid /\ ret # Rgba(c)

\* The faces the reduction may pick: marked hit and with a plane the
\* picking line meets.
Candidates == {f \in Faces : hit[f] /\ plane[f] # NoIntersection}

\* C8: the CPU pick returns the candidate at the least squared distance,
\* the lowest index among equals, and caches its intersection point; a hit
\* face whose plane the line misses is not picked; with no candidate the
\* result is invalid.
C8_NearestCandidate ==
    pc = "cpu_done" =>
        /\ picked_face_ = ret
        /\ Candidates = {} => ret = Invalid
        /\ Candidates # {} =>
              /\ ret \in Candidates
              /\ \A g \in Candidates :
                    /\ plane[ret] <= plane[g]
                    /\ plane[g] = plane[ret] => ret <= g
              /\ picked_point_ = IntersectionPoint(ret)

\* Two candidates at the same distance and a hit face whose plane the
\* line misses, on a picker that held another point before.
C8_Witness ==
    /\ pc = "cpu_done" /\ ret = 0
    /\ \E g \in Candidates : g # ret /\ plane[g] = plane[ret]
    /\ entry.point # picked_point_

\* The status array a sequential scan of the faces leaves.
SequentialStatus == [f \in Faces |-> IF hit[f] THEN 1 ELSE 0]

\* C9: during the parallel scan an iteration writes status at its own index
\* only, the reduction starts after every iteration is done, and the
\* status array, the picked face and the picked point are those of a
\* sequential scan whatever the team and the interleaving.
C9_ParallelScanAsSequential ==
    /\ pc = "cpu_scan" =>
          \A f \in Faces : status[f] = IF f \notin todo /\ hit[f] THEN 1 ELSE 0
    /\ pc = "cpu_reduce" => (todo = {} /\ status = SequentialStatus)
    /\ pc = "cpu_done" =>
          LET r == Reduce(0, [face |-> Invalid, point |-> entry.point, dist |-> FLT_MAX],
                          SequentialStatus, plane)
          IN picked_face_ = r.face /\ picked_point_ = r.point /\ ret = r.face

\* A later iteration has marked its face while an earlier one, of another
\* thread, is still to run.
C9_Witness ==
    /\ pc = "cpu_scan" /\ num_threads > 1
    /\ 0 \in todo /\ hit[0] /\ \E f \in Faces : f > 0 /\ status[f] = 1

\* C10: a GPU-mode pick_face leaves the cached picked point as it found it,
\* whether or not it picks a face, and a refiner run after it measures its
\* 3D distances against that point.
C10_GpuKeepsPoint ==
    /\ pc = "gpu_done" => picked_point_ = entry.point
    /\ (path = "gpu" /\ op \in {"pick_vertex", "pick_edge"} /\ pc = "idle"
          /\ ref_point # Invalid) => ref_point = entry.point

\* pick_vertex(model, x, y) in GPU mode picked a face and accepted a vertex
\* measured against the point held before the call.
C10_Witness ==
    /\ path = "gpu" /\ op = "pick_vertex" /\ pc = "idle"
    /\ picked_face_ # Invalid /\ ret # Invalid /\ ref_point = entry.point
====
